---- MODULE Spec2Model ----
(***************************************************************************)
(* Model of the multi-agent consensus engine of hatch-agent                *)
(* (src/hatch_agent/agent/multi_agent.py): the batch aggregator            *)
(* run_bulk_update_analysis, the code-change deduplication, the response   *)
(* parsers, the plan extractor and its copies in the commands, the task    *)
(* builder _build_bulk_update_task and a round of the orchestrator as      *)
(* Agent.run_task (src/hatch_agent/agent/core.py) starts it.               *)
(*                                                                         *)
(* Python values.  A dict is a function whose domain is its set of keys    *)
(* (so `"k" in d` is "k" \in DOMAIN d).  Every value that is not a dict is *)
(* a record with a field "tag": None, a list, a string, a number.  Strings *)
(* whose characters matter (file, line_range, description) are sequences   *)
(* of one-character strings.                                               *)
(***************************************************************************)
EXTENDS Integers, Sequences, FiniteSets, TLC

VARIABLES
    entry,                \* entry point: "batch", "dedup", "parse", "extract", "agent", "task"
    pc,                   \* position of the running call
    updates,              \* run_bulk_update_analysis: the input list of items
    idx,                  \* number of items the for loop has finished
    all_code_changes,     \* the working list (the argument of _deduplicate_code_changes)
    all_breaking_changes, \* aggregate breaking changes
    failed_packages,      \* packages whose round failed
    rounds,               \* history: what happened to each finished item
    seen,                 \* _deduplicate_code_changes: the dict `seen`, in insertion order
    k,                    \* number of changes the dedup loop has finished
    unique_changes,       \* the list _deduplicate_code_changes returned
    report,               \* the dict run_bulk_update_analysis returned
    run_no,               \* 1 during the first deduplication, 2 during a repeated one
    first_result,         \* the list the first deduplication returned
    result,               \* the parsers' argument: a response (text, dict or other value)
    suggestions,          \* _parse_judge_decision: the list of AgentResponse
    parsed,               \* what the parser returned, or the exception it raised
    extract_arg,          \* _extract_update_plan: its argument `suggestion`
    extracted,            \* _extract_update_plan: what it returned or raised
    extractor,            \* which copy of the extractor was called
    state,                \* Agent.state
    prepared,             \* history: the contexts passed to Agent.prepare so far
    use_multi_agent,      \* Agent.use_multi_agent
    llm,                  \* Agent.llm: "client" or "none"
    task,                 \* the task of the running (or last) run_task
    context,              \* the context the orchestrator's round was handed
    profiles,             \* names of the two generator profiles and the judge of the round
    calls,                \* history: the completion calls of the round, in order
    task_result,          \* what run_task returned
    runs,                 \* history: outcome and Agent.state of each finished run_task
    batch_context,        \* run_bulk_update_analysis: the caller's context
    task_updates,         \* _build_bulk_update_task: all_updates
    task_current,         \* _build_bulk_update_task: position of current_update in it
    bulk_task             \* _build_bulk_update_task: the task it returned

vars == <<entry, pc, updates, idx, all_code_changes, all_breaking_changes,
          failed_packages, rounds, seen, k, unique_changes, report,
          run_no, first_result, result, suggestions, parsed, extract_arg, extracted, extractor,
          state, prepared, use_multi_agent, llm, task, context, profiles, calls,
          task_result, runs, batch_context, task_updates, task_current, bulk_task>>

batchVars == <<updates, idx, all_code_changes, all_breaking_changes, failed_packages,
               rounds, seen, k, unique_changes, report, run_no, first_result,
               batch_context>>

taskVars == <<task_updates, task_current, bulk_task>>

parseVars == <<result, suggestions, parsed>>

extractVars == <<extract_arg, extracted, extractor>>

agentVars == <<state, prepared, use_multi_agent, llm, task, context, profiles, calls,
               task_result, runs>>

----------------------------------------------------------------------------
(* Bounds *)

MaxItems == 2         \* length of the batch
MaxLen == 3           \* length of a working list handed to the deduplication
MaxTextLen == 2       \* length of the response texts taken over the whole alphabet
MaxProse == 2         \* length of the prose before the label and after the block
MaxPrepares == 2      \* number of Agent.prepare calls
MaxRuns == 2          \* number of Agent.run_task calls
MaxBatch == 7         \* length of the batch a task is built for

\* other_updates[:5]: the other packages a task names
NamedOthers == 5

----------------------------------------------------------------------------
(* Python values *)

None == [tag |-> "None"]
PyList(s) == [tag |-> "list", items |-> s]
PyStr(s) == [tag |-> "str", s |-> s]
PyNum(n) == [tag |-> "num", n |-> n]

IsDict(v) == "tag" \notin DOMAIN v

\* d.get(key, default)
Get(d, key, default) == IF key \in DOMAIN d THEN d[key] ELSE default

\* d[key] = v
Put(d, key, v) == [x \in (DOMAIN d) \cup {key} |-> IF x = key THEN v ELSE d[x]]

Range(s) == {s[j] : j \in 1..Len(s)}

\* all sequences over S of length at most n
SeqsUpTo(S, n) == UNION {[1..m -> S] : m \in 0..n}

\* list(a_set): the orders in which a set of strings can be listed
ListsOf(S) == {s \in [1..Cardinality(S) -> S] : Range(s) = S}

----------------------------------------------------------------------------
(* Inputs *)

Packages == {"a", "b"}

Items == {[package |-> p, old_version |-> "1.0", new_version |-> "2.0"] : p \in Packages}

\* code changes as a round's plan offers them (no package yet)
CcShort == [file |-> <<"f">>, line_range |-> <<"1">>, description |-> <<"x">>]
CcLong == [file |-> <<"f">>, line_range |-> <<"1">>, description |-> <<"x", "x">>]
CcOther == [file |-> <<"g">>, description |-> <<"x">>]

PlanCodeChanges ==
    { <<>>, <<CcShort>>, <<CcLong>>, <<CcOther>>, <<CcShort, CcLong>>,
      <<CcLong, CcShort>>, <<PyStr("oops")>>, <<CcShort, PyStr("oops")>> }

PlanBreakingChanges == { <<>>, <<"B1">>, <<"B1", "B2">> }

\* the context of the caller of run_bulk_update_analysis
BatchContexts ==
    { [x \in {} |-> None],
      [x \in {"project", "current_package"} |-> IF x = "project" THEN "demo" ELSE "stale"] }

\* what _extract_update_plan can hand back: None, or a dict
Plans ==
    {None}
      \cup {[breaking_changes |-> b, code_changes |-> c] :
                b \in PlanBreakingChanges, c \in PlanCodeChanges}
      \cup {[code_changes |-> c] : c \in {<<CcShort>>}}
      \cup {[version_spec |-> <<"1">>]}

\* what _run_update_agents can do for one item
Outcomes ==
    {[kind |-> "raise"], [kind |-> "fail"]}
      \cup {[kind |-> "ok", plan |-> p] : p \in Plans}

\* working lists for the deduplication on its own
Locs ==
    { [file |-> <<"a", ":", "b">>, line_range |-> <<"c">>],
      [file |-> <<"a">>, line_range |-> <<"b", ":", "c">>],
      [file |-> <<>>, line_range |-> <<>>],
      [x \in {} |-> <<>>] }

Descriptions == { <<"x">>, <<"x", "x">>, <<"x", "x", "x">> }

WithFields(loc, d, p) ==
    [x \in (DOMAIN loc) \cup {"description", "package"} |->
        IF x = "description" THEN d ELSE IF x = "package" THEN p ELSE loc[x]]

CodeChanges ==
    {WithFields(loc, d, p) : loc \in Locs, d \in Descriptions, p \in Packages}
      \cup {[file |-> <<>>, description |-> <<"x">>]}

----------------------------------------------------------------------------
(* run_bulk_update_analysis: one iteration of the for loop *)

\* `if plan:` - None and the empty dict are falsy
Truthy(plan) == IsDict(plan) /\ DOMAIN plan # {}

TagBreaking_Reversed(plan, update) ==
    LET bcs == Get(plan, "breaking_changes", <<>>)
    IN [j \in 1..Len(bcs) |->
            [package |-> Get(update, "package", "unknown"),
             old_version |-> Get(update, "old_version", "unknown"),
             new_version |-> Get(update, "new_version", "unknown"),
             change |-> bcs[Len(bcs) + 1 - j]]]

\* the entries appended to all_breaking_changes for one plan
TagBreaking(plan, update) ==
    LET bcs == Get(plan, "breaking_changes", <<>>)
    IN [j \in 1..Len(bcs) |->
            [package |-> Get(update, "package", "unknown"),
             old_version |-> Get(update, "old_version", "unknown"),
             new_version |-> Get(update, "new_version", "unknown"),
             change |-> bcs[j]]]

\* number of leading entries of code_changes on which cc["package"] = package
\* succeeds (item assignment on a str raises TypeError)
RECURSIVE DictPrefix(_)
DictPrefix(ccs) ==
    IF ccs = <<>> \/ ~IsDict(Head(ccs)) THEN 0 ELSE 1 + DictPrefix(Tail(ccs))

\* the entries appended to all_code_changes for one plan
TagCodeChanges(plan, package) ==
    LET ccs == Get(plan, "code_changes", <<>>)
    IN [j \in 1..DictPrefix(ccs) |-> Put(ccs[j], "package", package)]

\* does aggregating the plan raise inside the try block
AggregationRaises(plan) ==
    LET ccs == Get(plan, "code_changes", <<>>)
    IN DictPrefix(ccs) < Len(ccs)

\* mutants of RecordFailure: the failure is not recorded; it is recorded in front
RecordFailure_Dropped(failed, package) == failed
RecordFailure_Front(failed, package) == <<package>> \o failed

\* failed_packages.append(package)
RecordFailure(failed, package) == Append(failed, package)

\* mutant of PackagesAnalyzed: only the items that did not fail are counted
PackagesAnalyzed_Succeeded(items) == Len(items) - Len(failed_packages)

\* "packages_analyzed": len(updates)
PackagesAnalyzed(items) == Len(items)

UpdateContext_CallerWins(ctx, package, update) ==
    [x \in (DOMAIN ctx) \cup {"current_package", "current_update"} |->
        IF x \in DOMAIN ctx THEN ctx[x]
        ELSE IF x = "current_package" THEN package ELSE update]

\* update_context = {**context, "current_package": package, "current_update": update}
UpdateContext(ctx, package, update) ==
    [x \in (DOMAIN ctx) \cup {"current_package", "current_update"} |->
        IF x = "current_package" THEN package
        ELSE IF x = "current_update" THEN update
        ELSE ctx[x]]

ProcessItem ==
    /\ entry = "batch"
    /\ pc = "loop"
    /\ idx < Len(updates)
    /\ \E outcome \in Outcomes :
         LET update == updates[idx + 1]
             package == Get(update, "package", "unknown")
             success == outcome.kind = "ok"
             plan == IF success THEN outcome.plan ELSE None
             used == success /\ Truthy(plan)
             bcs == IF used THEN TagBreaking(plan, update) ELSE <<>>
             ccs == IF used THEN TagCodeChanges(plan, package) ELSE <<>>
             failed == ~success \/ (used /\ AggregationRaises(plan))
         IN /\ all_breaking_changes' = all_breaking_changes \o bcs
            /\ all_code_changes' = all_code_changes \o ccs
            /\ failed_packages' = IF failed THEN RecordFailure(failed_packages, package)
                                  ELSE failed_packages
            /\ rounds' = Append(rounds, [outcome |-> outcome, bc |-> Len(bcs),
                                         cc |-> Len(ccs), failed |-> failed,
                                         context |-> UpdateContext(batch_context, package,
                                                                   update)])
    /\ idx' = idx + 1
    /\ UNCHANGED <<entry, pc, updates, seen, k, unique_changes, report, run_no, first_result>>
    /\ UNCHANGED <<parseVars, extractVars, agentVars, taskVars, batch_context>>

\* the host cancels while the round of an item is in flight: KeyboardInterrupt
\* and asyncio.CancelledError are no Exception, so the handler of the loop
\* does not catch them and run_bulk_update_analysis ends without a report
Cancel ==
    /\ entry = "batch"
    /\ pc = "loop"
    /\ idx < Len(updates)
    /\ pc' = "cancelled"
    /\ UNCHANGED <<entry, updates, idx, all_code_changes, all_breaking_changes,
                   failed_packages, rounds, seen, k, unique_changes, report,
                   run_no, first_result>>
    /\ UNCHANGED <<parseVars, extractVars, agentVars, taskVars, batch_context>>

\* the loop is over: call _deduplicate_code_changes(all_code_changes)
CallDedup ==
    /\ entry = "batch"
    /\ pc = "loop"
    /\ idx = Len(updates)
    /\ pc' = "dedup"
    /\ UNCHANGED <<entry, updates, idx, all_code_changes, all_breaking_changes,
                   failed_packages, rounds, seen, k, unique_changes, report,
                   run_no, first_result>>
    /\ UNCHANGED <<parseVars, extractVars, agentVars, taskVars, batch_context>>

----------------------------------------------------------------------------
(* _deduplicate_code_changes.  `seen` is the dict key -> change, held as   *)
(* the sequence of its keys in insertion order, each with the position in  *)
(* the working list of the change object it refers to (the changes are     *)
(* mutated in place, and the working list and `seen` share them).          *)

\* key = f"{file_path}:{line_range}"
DedupKey(change) ==
    Get(change, "file", <<>>) \o <<":">> \o Get(change, "line_range", <<>>)

\* `key in seen` and the position of key in seen
SeenAt(key) == {j \in 1..Len(seen) : seen[j].key = key}

\* mutant of Longer: a change of equal length replaces the existing one
Longer_OrEqual(change, existing) ==
    Len(Get(change, "description", <<>>)) >= Len(Get(existing, "description", <<>>))

\* new_desc_len > existing_desc_len
Longer(change, existing) ==
    Len(Get(change, "description", <<>>)) > Len(Get(existing, "description", <<>>))

\* the set `packages` built when the new change replaces the existing one
MergedPackages(existing, change) ==
    (IF "package" \in DOMAIN existing THEN {existing["package"]} ELSE {})
      \cup (IF "package" \in DOMAIN change THEN {change["package"]} ELSE {})

\* the values change["packages"] can get: list(packages) in any order of the
\* set, or None when the set has at most one element
PackagesField(packages) ==
    IF Cardinality(packages) > 1 THEN {PyList(l) : l \in ListsOf(packages)} ELSE {None}

\* if "packages" not in existing: existing["packages"] = [existing["package"]]
InitPackages(existing) ==
    IF "packages" \notin DOMAIN existing
    THEN Put(existing, "packages", PyList(<<existing["package"]>>))
    ELSE existing

\* if change["package"] not in existing["packages"]: append it
AddPackage(existing, package) ==
    IF package \in Range(existing["packages"].items)
    THEN existing
    ELSE Put(existing, "packages", PyList(Append(existing["packages"].items, package)))

\* `x not in None` raises TypeError
MembershipRaises(existing) == existing["packages"] = None

\* mutant of SeenValues: the values are listed by the survivor's place in the input
SeenValues_ByPosition ==
    LET places == {seen[j].at : j \in 1..Len(seen)}
    IN [j \in 1..Len(seen) |->
           all_code_changes[CHOOSE p \in places :
                               Cardinality({q \in places : q < p}) = j - 1]]

\* mutant of SeenValues: the values are listed last key first
SeenValues_Reversed ==
    [j \in 1..Len(seen) |-> all_code_changes[seen[Len(seen) + 1 - j].at]]

\* list(seen.values())
SeenValues == [j \in 1..Len(seen) |-> all_code_changes[seen[j].at]]

DedupStep ==
    /\ pc = "dedup"
    /\ k < Len(all_code_changes)
    /\ LET change == all_code_changes[k + 1]
           key == DedupKey(change)
       IN IF SeenAt(key) = {}
          THEN /\ seen' = Append(seen, [key |-> key, at |-> k + 1])
               /\ UNCHANGED <<all_code_changes, pc>>
          ELSE LET j == CHOOSE j \in SeenAt(key) : TRUE
                   existing == all_code_changes[seen[j].at]
               IN IF Longer(change, existing)
                  THEN /\ \E v \in PackagesField(MergedPackages(existing, change)) :
                            all_code_changes' =
                                [all_code_changes EXCEPT ![k + 1] = Put(change, "packages", v)]
                       /\ seen' = [seen EXCEPT ![j].at = k + 1]
                       /\ UNCHANGED pc
                  ELSE IF "package" \in DOMAIN change /\ "package" \in DOMAIN existing
                  THEN LET ex1 == InitPackages(existing)
                       IN IF MembershipRaises(ex1)
                          THEN /\ pc' = "raised"
                               /\ UNCHANGED <<all_code_changes, seen>>
                          ELSE /\ all_code_changes' =
                                     [all_code_changes EXCEPT
                                        ![seen[j].at] = AddPackage(ex1, change["package"])]
                               /\ UNCHANGED <<seen, pc>>
                  ELSE UNCHANGED <<all_code_changes, seen, pc>>
    /\ k' = k + 1
    /\ UNCHANGED <<entry, updates, idx, all_breaking_changes, failed_packages, rounds,
                   unique_changes, report, run_no, first_result>>
    /\ UNCHANGED <<parseVars, extractVars, agentVars, taskVars, batch_context>>

\* run_bulk_update_analysis: the deduplication returned; build the report
BatchReturn ==
    /\ entry = "batch"
    /\ pc = "dedup"
    /\ k = Len(all_code_changes)
    /\ unique_changes' = SeenValues
    /\ report' = [success |-> TRUE,
                  breaking_changes |-> all_breaking_changes,
                  code_changes |-> SeenValues,
                  packages_analyzed |-> PackagesAnalyzed(updates),
                  failed_packages |-> failed_packages]
    /\ pc' = "returned"
    /\ UNCHANGED <<entry, updates, idx, all_code_changes, all_breaking_changes,
                   failed_packages, rounds, seen, k, run_no, first_result>>
    /\ UNCHANGED <<parseVars, extractVars, agentVars, taskVars, batch_context>>

\* _deduplicate_code_changes called on its own returns
DedupReturn ==
    /\ entry = "dedup"
    /\ pc = "dedup"
    /\ k = Len(all_code_changes)
    /\ unique_changes' = SeenValues
    /\ first_result' = IF run_no = 1 THEN SeenValues ELSE first_result
    /\ pc' = "returned"
    /\ UNCHANGED <<entry, updates, idx, all_code_changes, all_breaking_changes,
                   failed_packages, rounds, seen, k, report, run_no>>
    /\ UNCHANGED <<parseVars, extractVars, agentVars, taskVars, batch_context>>

\* a second call of _deduplicate_code_changes: on the same working list (whose
\* dicts the first call has mutated) or on the list the first call returned
DedupAgain ==
    /\ entry = "dedup"
    /\ pc = "returned"
    /\ run_no = 1
    /\ \E again \in {"same", "result"} :
          all_code_changes' = IF again = "same" THEN all_code_changes ELSE unique_changes
    /\ seen' = <<>>
    /\ k' = 0
    /\ run_no' = 2
    /\ pc' = "dedup"
    /\ UNCHANGED <<entry, updates, idx, all_breaking_changes, failed_packages, rounds,
                   unique_changes, report, first_result>>
    /\ UNCHANGED <<parseVars, extractVars, agentVars, taskVars, batch_context>>

----------------------------------------------------------------------------
(* json.loads.  A text is a sequence of tokens: punctuation, the literal   *)
(* null, numbers, quoted strings and bare words (prose).  Whitespace is    *)
(* not modelled (the decoder skips it).                                    *)

Punct(c) == [t |-> "punct", s |-> c]
StrTok(c) == [t |-> "str", s |-> c]
NumTok(c) == [t |-> "num", s |-> c]
Word(c) == [t |-> "word", s |-> c]
Null == [t |-> "null", s |-> "null"]

\* a Python str that is a whole response text
PyText(toks) == [tag |-> "text", toks |-> toks]

\* str(value) of a value that is no str
PyRepr(v) == [tag |-> "repr", of |-> v]

EmptyDict == [x \in {} |-> None]

Decoded(v, next) == [ok |-> TRUE, v |-> v, next |-> next]
DecodeError == [ok |-> FALSE, v |-> None, next |-> 0]

RECURSIVE ParseValue(_, _), ParseMembers(_, _, _), ParseElements(_, _, _)

\* decode one JSON value that starts at token i
ParseValue(t, i) ==
    IF i > Len(t) THEN DecodeError
    ELSE IF t[i].t = "str" THEN Decoded(PyStr(t[i].s), i + 1)
    ELSE IF t[i].t = "num" THEN Decoded(PyNum(t[i].s), i + 1)
    ELSE IF t[i] = Null THEN Decoded(None, i + 1)
    ELSE IF t[i] = Punct("{")
         THEN IF i + 1 <= Len(t) /\ t[i + 1] = Punct("}")
              THEN Decoded(EmptyDict, i + 2)
              ELSE ParseMembers(t, i + 1, EmptyDict)
    ELSE IF t[i] = Punct("[")
         THEN IF i + 1 <= Len(t) /\ t[i + 1] = Punct("]")
              THEN Decoded(PyList(<<>>), i + 2)
              ELSE ParseElements(t, i + 1, <<>>)
    ELSE DecodeError

\* "key": value pairs up to the closing brace; a repeated key keeps the last value
ParseMembers(t, i, d) ==
    IF i + 1 > Len(t) \/ t[i].t # "str" \/ t[i + 1] # Punct(":") THEN DecodeError
    ELSE LET r == ParseValue(t, i + 2)
         IN IF ~r.ok \/ r.next > Len(t) THEN DecodeError
            ELSE IF t[r.next] = Punct("}") THEN Decoded(Put(d, t[i].s, r.v), r.next + 1)
            ELSE IF t[r.next] = Punct(",") THEN ParseMembers(t, r.next + 1, Put(d, t[i].s, r.v))
            ELSE DecodeError

\* list elements up to the closing bracket
ParseElements(t, i, l) ==
    LET r == ParseValue(t, i)
    IN IF ~r.ok \/ r.next > Len(t) THEN DecodeError
       ELSE IF t[r.next] = Punct("]") THEN Decoded(PyList(Append(l, r.v)), r.next + 1)
       ELSE IF t[r.next] = Punct(",") THEN ParseElements(t, r.next + 1, Append(l, r.v))
       ELSE DecodeError

\* json.loads(text): the whole text must be one value, else JSONDecodeError
JsonLoads(t) ==
    LET r == ParseValue(t, 1)
    IN IF r.ok /\ r.next = Len(t) + 1 THEN Decoded(r.v, r.next) ELSE DecodeError

----------------------------------------------------------------------------
(* _parse_agent_response and _parse_judge_decision.  Both return           *)
(* [exc |-> "none", val |-> the value] or [exc |-> the exception raised].  *)

Returned(v) == [exc |-> "none", val |-> v]
Raised(e) == [exc |-> e, val |-> None]

AgentResponse(agent_name, suggestion, reasoning, confidence) ==
    [agent_name |-> agent_name, suggestion |-> suggestion,
     reasoning |-> reasoning, confidence |-> confidence]

IsText(v) == ~IsDict(v) /\ v.tag = "text"

ParseAgentResponse_MappingAsText(agent_name, res) ==
    IF IsText(res)
    THEN LET r == JsonLoads(res.toks)
         IN IF r.ok
            THEN IF IsDict(r.v)
                 THEN Returned(AgentResponse(agent_name,
                                             Get(r.v, "suggestion", res),
                                             Get(r.v, "reasoning", PyStr("")),
                                             Get(r.v, "confidence", PyNum("0.7"))))
                 ELSE Raised("AttributeError")
            ELSE Returned(AgentResponse(agent_name, res, PyStr(""), PyNum("0.5")))
    ELSE IF IsDict(res)
    THEN Returned(AgentResponse(agent_name,
                                Get(res, "suggestion", PyRepr(res)),
                                Get(res, "reasoning", PyStr("")),
                                Get(res, "confidence", PyNum("0.5"))))
    ELSE Returned(AgentResponse(agent_name, PyRepr(res), PyStr(""), PyNum("0.5")))

ParseAgentResponse(agent_name, res) ==
    IF IsText(res)
    THEN LET r == JsonLoads(res.toks)
         IN IF r.ok
            THEN IF IsDict(r.v)
                 THEN Returned(AgentResponse(agent_name,
                                             Get(r.v, "suggestion", res),
                                             Get(r.v, "reasoning", PyStr("")),
                                             Get(r.v, "confidence", PyNum("0.7"))))
                 ELSE Raised("AttributeError")   \* data.get on an int, list, str, None
            ELSE Returned(AgentResponse(agent_name, res, PyStr(""), PyNum("0.5")))
    ELSE IF IsDict(res)
    THEN Returned(AgentResponse(agent_name,
                                Get(res, "suggestion", PyRepr(res)),
                                Get(res, "reasoning", PyStr("")),
                                Get(res, "confidence", PyNum("0.7"))))
    ELSE Returned(AgentResponse(agent_name, PyRepr(res), PyStr(""), PyNum("0.5")))

\* next((s for s in suggestions if s.agent_name == selected_agent), suggestions[0])
MatchingSuggestion(suggs, selected_agent) ==
    LET hits == {j \in 1..Len(suggs) : suggs[j].agent_name = selected_agent}
    IN IF hits = {} THEN suggs[1]
       ELSE suggs[CHOOSE j \in hits : \A h \in hits : j <= h]

\* mutant of DecisionFrom: selected_agent is read without a default
DecisionFrom_NoDefault(data, suggs) ==
    LET selected_agent == Get(data, "selected_agent", None)
        selected_suggestion == MatchingSuggestion(suggs, selected_agent)
    IN [agent_name |-> selected_agent,
        suggestion |-> Get(data, "suggestion", selected_suggestion.suggestion),
        reasoning |-> Get(data, "reasoning", PyStr(""))]

\* the dict built from a decoded judge response
DecisionFrom(data, suggs) ==
    LET selected_agent == Get(data, "selected_agent", suggs[1].agent_name)
        selected_suggestion == MatchingSuggestion(suggs, selected_agent)
    IN [agent_name |-> selected_agent,
        suggestion |-> Get(data, "suggestion", selected_suggestion.suggestion),
        reasoning |-> Get(data, "reasoning", PyStr(""))]

ParseJudgeDecision(res, suggs) ==
    IF suggs = <<>> THEN Raised("IndexError")
    ELSE IF IsText(res)
    THEN LET r == JsonLoads(res.toks)
         IN IF r.ok
            THEN IF IsDict(r.v)
                 THEN Returned(DecisionFrom(r.v, suggs))
                 ELSE Raised("AttributeError")
            ELSE Returned([agent_name |-> suggs[1].agent_name,
                           suggestion |-> suggs[1].suggestion,
                           reasoning |-> res])
    ELSE IF IsDict(res)
    THEN Returned(DecisionFrom(res, suggs))
    ELSE Returned([agent_name |-> suggs[1].agent_name,
                   suggestion |-> suggs[1].suggestion,
                   reasoning |-> PyRepr(res)])

\* _parse_agent_response(agent_name, result), called for the first profile
CallParseAgentResponse ==
    /\ entry = "parse"
    /\ pc = "idle"
    /\ parsed' = ParseAgentResponse(PyStr("A1"), result)
    /\ pc' = "agent_response"
    /\ UNCHANGED <<entry, updates, idx, all_code_changes, all_breaking_changes,
                   failed_packages, rounds, seen, k, unique_changes, report,
                   run_no, first_result, result, suggestions>>
    /\ UNCHANGED <<extractVars, agentVars, taskVars, batch_context>>

\* _parse_judge_decision(result, suggestions)
CallParseJudgeDecision ==
    /\ entry = "parse"
    /\ pc = "idle"
    /\ parsed' = ParseJudgeDecision(result, suggestions)
    /\ pc' = "judge_decision"
    /\ UNCHANGED <<entry, updates, idx, all_code_changes, all_breaking_changes,
                   failed_packages, rounds, seen, k, unique_changes, report,
                   run_no, first_result, result, suggestions>>
    /\ UNCHANGED <<extractVars, agentVars, taskVars, batch_context>>

----------------------------------------------------------------------------
(* Inputs of the parsers *)

Alphabet ==
    { Punct("{"), Punct("}"), Punct("["), Punct("]"), Punct(":"), Punct(","),
      Null, NumTok("42"), StrTok("selected_agent"), StrTok("A2"), Word("garbage") }

\* the fields a response object is built from, as key and value tokens
Fields ==
    { <<"selected_agent", StrTok("A1")>>, <<"selected_agent", StrTok("A2")>>,
      <<"selected_agent", StrTok("Nobody")>>, <<"selected_agent", Null>>,
      <<"suggestion", StrTok("do this")>>, <<"reasoning", StrTok("because")>>,
      <<"confidence", NumTok("0.9")>>, <<"confidence", Null>> }

\* the text { "k1": v1, "k2": v2, ... } of a sequence of fields
RECURSIVE Members(_)
Members(fs) ==
    IF fs = <<>> THEN <<>>
    ELSE <<StrTok(Head(fs)[1]), Punct(":"), Head(fs)[2]>>
           \o (IF Tail(fs) = <<>> THEN <<>> ELSE <<Punct(",")>> \o Members(Tail(fs)))

ObjectText(fs) == <<Punct("{")>> \o Members(fs) \o <<Punct("}")>>

ObjectTexts == {ObjectText(fs) : fs \in SeqsUpTo(Fields, 2)}

\* a response is a text, a dict or some other value
Responses ==
    {PyText(t) : t \in SeqsUpTo(Alphabet, MaxTextLen) \cup ObjectTexts}
      \cup {JsonLoads(t).v : t \in ObjectTexts}
      \cup {PyNum("7")}

Suggestion1 == AgentResponse(PyStr("A1"), PyStr("s1"), PyStr("r1"), PyNum("0.9"))
Suggestion2 == AgentResponse(PyStr("A2"), PyStr("s2"), PyStr("r2"), PyNum("0.8"))

SuggestionLists ==
    { <<Suggestion1>>, <<Suggestion1, Suggestion2>>, <<Suggestion2, Suggestion1>> }

----------------------------------------------------------------------------
(* Specifications *)

NoReport == [success |-> FALSE]

\* the parts of the state an entry point does not use
IdleBatch ==
    /\ updates = <<>>
    /\ idx = 0
    /\ all_code_changes = <<>>
    /\ all_breaking_changes = <<>>
    /\ failed_packages = <<>>
    /\ rounds = <<>>
    /\ seen = <<>>
    /\ k = 0
    /\ unique_changes = <<>>
    /\ report = NoReport
    /\ run_no = 1
    /\ first_result = <<>>
    /\ batch_context = EmptyDict

IdleTask ==
    /\ task_updates = <<>>
    /\ task_current = 0
    /\ bulk_task = None

IdleParse ==
    /\ result = None
    /\ suggestions = <<>>
    /\ parsed = None

IdleExtract ==
    /\ extract_arg = None
    /\ extracted = None
    /\ extractor = "orchestrator"

IdleAgent ==
    /\ state = EmptyDict
    /\ prepared = <<>>
    /\ use_multi_agent = FALSE
    /\ llm = "none"
    /\ task = <<>>
    /\ context = EmptyDict
    /\ profiles = <<>>
    /\ calls = <<>>
    /\ task_result = None
    /\ runs = <<>>

\* run_bulk_update_analysis(updates, context)
Init ==
    /\ entry = "batch"
    /\ pc = "loop"
    /\ updates \in SeqsUpTo(Items, MaxItems)
    /\ idx = 0
    /\ all_code_changes = <<>>
    /\ all_breaking_changes = <<>>
    /\ failed_packages = <<>>
    /\ rounds = <<>>
    /\ seen = <<>>
    /\ k = 0
    /\ unique_changes = <<>>
    /\ report = NoReport
    /\ run_no = 1
    /\ first_result = <<>>
    /\ result = None
    /\ suggestions = <<>>
    /\ parsed = None
    /\ IdleExtract
    /\ IdleAgent
    /\ IdleTask
    /\ batch_context \in BatchContexts

Next == ProcessItem \/ CallDedup \/ DedupStep \/ BatchReturn

Spec == Init /\ [][Next]_vars

\* the same with a host that can cancel the run
NextCancel == Next \/ Cancel

SpecCancel == Init /\ [][NextCancel]_vars

\* _deduplicate_code_changes(code_changes) on any working list, then once more
InitDedup ==
    /\ entry = "dedup"
    /\ pc = "dedup"
    /\ updates = <<>>
    /\ idx = 0
    /\ all_code_changes \in SeqsUpTo(CodeChanges, MaxLen)
    /\ all_breaking_changes = <<>>
    /\ failed_packages = <<>>
    /\ rounds = <<>>
    /\ seen = <<>>
    /\ k = 0
    /\ unique_changes = <<>>
    /\ report = NoReport
    /\ run_no = 1
    /\ first_result = <<>>
    /\ result = None
    /\ suggestions = <<>>
    /\ parsed = None
    /\ IdleExtract
    /\ IdleAgent
    /\ IdleTask
    /\ batch_context = EmptyDict

NextDedup == DedupStep \/ DedupReturn \/ DedupAgain

SpecDedup == InitDedup /\ [][NextDedup]_vars

\* one call of a parser on any response
InitParse ==
    /\ entry = "parse"
    /\ pc = "idle"
    /\ updates = <<>>
    /\ idx = 0
    /\ all_code_changes = <<>>
    /\ all_breaking_changes = <<>>
    /\ failed_packages = <<>>
    /\ rounds = <<>>
    /\ seen = <<>>
    /\ k = 0
    /\ unique_changes = <<>>
    /\ report = NoReport
    /\ run_no = 1
    /\ first_result = <<>>
    /\ result \in Responses
    /\ suggestions \in SuggestionLists
    /\ parsed = None
    /\ IdleExtract
    /\ IdleAgent
    /\ IdleTask
    /\ batch_context = EmptyDict

NextParse == CallParseAgentResponse \/ CallParseJudgeDecision

SpecParse == InitParse /\ [][NextParse]_vars

\* ---- _extract_update_plan: the JSON object behind the label UPDATE_PLAN: ----

\* the label, one token of a text
Label == [t |-> "label", s |-> "UPDATE_PLAN:"]

\* str.find and str.rfind: the Python index of the first and of the last c, or -1
Find(t, c) ==
    IF \E i \in 1..Len(t) : t[i] = c
    THEN (CHOOSE i \in 1..Len(t) : t[i] = c /\ \A j \in 1..(i - 1) : t[j] # c) - 1
    ELSE -1

RFind(t, c) ==
    IF \E i \in 1..Len(t) : t[i] = c
    THEN (CHOOSE i \in 1..Len(t) : t[i] = c /\ \A j \in (i + 1)..Len(t) : t[j] # c) - 1
    ELSE -1

\* the Python slice t[a:b] for a, b >= 0; empty when b <= a
Slice(t, a, b) == SubSeq(t, a + 1, IF b > Len(t) THEN Len(t) ELSE b)

\* t.split("UPDATE_PLAN:")[1] of a text that contains the label: what stands
\* between the first label and the next one, or the end of the text
SplitSecond(t) ==
    LET rest == Slice(t, Find(t, Label) + 1, Len(t))
    IN IF Find(rest, Label) = -1 THEN rest ELSE Slice(rest, 0, Find(rest, Label))

ExtractFrom(plan_part) ==
    LET start == Find(plan_part, Punct("{"))
        end == RFind(plan_part, Punct("}")) + 1
    IN IF start = -1 \/ end = 0 THEN Returned(None)
       ELSE IF JsonLoads(Slice(plan_part, start, end)).ok
            THEN Returned(JsonLoads(Slice(plan_part, start, end)).v)
            ELSE Returned(None)

ExtractUpdatePlan_NoGuard(s) ==
    IF IsDict(s) THEN IF "UPDATE_PLAN:" \notin DOMAIN s THEN Returned(None) ELSE Raised("AttributeError")
    ELSE IF ~IsText(s) THEN Raised("TypeError")
    ELSE IF Label \notin Range(s.toks) THEN ExtractFrom(s.toks)
    ELSE ExtractFrom(SplitSecond(s.toks))

\* _extract_update_plan(suggestion)
ExtractUpdatePlan(s) ==
    IF IsDict(s) THEN IF "UPDATE_PLAN:" \notin DOMAIN s THEN Returned(None) ELSE Raised("AttributeError")
    ELSE IF ~IsText(s) THEN Raised("TypeError")
    ELSE IF Label \notin Range(s.toks) THEN Returned(None)
    ELSE ExtractFrom(SplitSecond(s.toks))

CallExtractUpdatePlan ==
    /\ entry = "extract"
    /\ pc = "idle"
    /\ extracted' = ExtractUpdatePlan(extract_arg)
    /\ pc' = "extracted"
    /\ UNCHANGED <<entry, extract_arg, extractor, batchVars, parseVars, agentVars, taskVars>>

\* what the prose around a block is made of
Prose == {Word("see"), Punct("{"), Punct("}"), Label}

Blocks ==
    { ObjectText(<<>>),
      ObjectText(<< <<"a", NumTok("1")>> >>),
      <<Punct("{"), StrTok("a"), Punct(":")>> \o ObjectText(<< <<"b", NumTok("1")>> >>)
          \o <<Punct("}")>>,
      ObjectText(<< <<"package", StrTok("requests")>> >>),
      <<Punct("{"), Word("see"), Punct("}")>> }

\* prose, the label, a block, prose; and short texts of any shape
ExtractTexts ==
    {pre \o <<Label>> \o block \o post :
        pre \in SeqsUpTo(Prose, MaxProse), block \in Blocks, post \in SeqsUpTo(Prose, MaxProse)}
      \cup SeqsUpTo(Prose, MaxProse + 1)

ExtractArgs == {PyText(t) : t \in ExtractTexts} \cup {None, EmptyDict, PyNum("7")}

\* the copies of the extractor in the commands, each with its own label
LabelOf(name) == [t |-> "label", s |-> name]

\* text.split(label)[1] of a text that contains the label
SplitSecondAt(t, lab) ==
    LET rest == Slice(t, Find(t, lab) + 1, Len(t))
    IN IF Find(rest, lab) = -1 THEN rest ELSE Slice(rest, 0, Find(rest, lab))

\* commands/sync.py: _extract_update_plan(suggestion)
SyncExtractUpdatePlan(s) ==
    IF IsDict(s) THEN IF "UPDATE_PLAN:" \notin DOMAIN s THEN Returned(None) ELSE Raised("AttributeError")
    ELSE IF ~IsText(s) THEN Raised("TypeError")
    ELSE IF LabelOf("UPDATE_PLAN:") \notin Range(s.toks) THEN Returned(None)
    ELSE ExtractFrom(SplitSecondAt(s.toks, LabelOf("UPDATE_PLAN:")))

\* commands/update_dependency.py: _extract_update_plan(suggestion)
UpdateDependencyExtractUpdatePlan(s) ==
    IF IsDict(s) THEN IF "UPDATE_PLAN:" \notin DOMAIN s THEN Returned(None) ELSE Raised("AttributeError")
    ELSE IF ~IsText(s) THEN Raised("TypeError")
    ELSE IF LabelOf("UPDATE_PLAN:") \notin Range(s.toks) THEN Returned(None)
    ELSE ExtractFrom(SplitSecondAt(s.toks, LabelOf("UPDATE_PLAN:")))

\* commands/fix.py: _extract_fix_plan(suggestion)
ExtractFixPlan(s) ==
    IF IsDict(s) THEN IF "FIX_PLAN:" \notin DOMAIN s THEN Returned(None) ELSE Raised("AttributeError")
    ELSE IF ~IsText(s) THEN Raised("TypeError")
    ELSE IF LabelOf("FIX_PLAN:") \notin Range(s.toks) THEN Returned(None)
    ELSE ExtractFrom(SplitSecondAt(s.toks, LabelOf("FIX_PLAN:")))

\* commands/migrate.py: _extract_migration_plan(suggestion)
ExtractMigrationPlan(s) ==
    IF IsDict(s) THEN IF "MIGRATION_PLAN:" \notin DOMAIN s THEN Returned(None) ELSE Raised("AttributeError")
    ELSE IF ~IsText(s) THEN Raised("TypeError")
    ELSE IF LabelOf("MIGRATION_PLAN:") \notin Range(s.toks) THEN Returned(None)
    ELSE ExtractFrom(SplitSecondAt(s.toks, LabelOf("MIGRATION_PLAN:")))

\* commands/add_dependency.py: _extract_dependency_info(suggestion); an object
\* without the key "package" is dropped
ExtractDependencyInfo(s) ==
    IF IsDict(s) THEN IF "ACTION:" \notin DOMAIN s THEN Returned(None) ELSE Raised("AttributeError")
    ELSE IF ~IsText(s) THEN Raised("TypeError")
    ELSE IF LabelOf("ACTION:") \notin Range(s.toks) THEN Returned(None)
    ELSE LET r == ExtractFrom(SplitSecondAt(s.toks, LabelOf("ACTION:")))
         IN IF r.val # None /\ "package" \notin DOMAIN r.val THEN Returned(None) ELSE r

Copies == {"sync", "update_dependency", "fix", "migrate", "add_dependency"}

CopyLabel(e) ==
    CASE e = "fix" -> "FIX_PLAN:"
      [] e = "migrate" -> "MIGRATION_PLAN:"
      [] e = "add_dependency" -> "ACTION:"
      [] OTHER -> "UPDATE_PLAN:"

\* the same text written with the label of copy e
Relabel(v, e) ==
    IF IsText(v)
    THEN PyText([j \in 1..Len(v.toks) |->
                    IF v.toks[j] = Label THEN LabelOf(CopyLabel(e)) ELSE v.toks[j]])
    ELSE v

CopyResult(e, v) ==
    CASE e = "sync" -> SyncExtractUpdatePlan(v)
      [] e = "update_dependency" -> UpdateDependencyExtractUpdatePlan(v)
      [] e = "fix" -> ExtractFixPlan(v)
      [] e = "migrate" -> ExtractMigrationPlan(v)
      [] e = "add_dependency" -> ExtractDependencyInfo(v)

\* one of the copies is called on the text written with its label
CallExtractCopy(e) ==
    /\ entry = "extract"
    /\ pc = "idle"
    /\ extractor' = e
    /\ extracted' = CopyResult(e, Relabel(extract_arg, e))
    /\ pc' = "copied"
    /\ UNCHANGED <<entry, extract_arg, batchVars, parseVars, agentVars, taskVars>>

InitExtract ==
    /\ entry = "extract"
    /\ pc = "idle"
    /\ extract_arg \in ExtractArgs
    /\ extracted = None
    /\ extractor = "orchestrator"
    /\ IdleBatch
    /\ IdleParse
    /\ IdleAgent
    /\ IdleTask

NextExtract == CallExtractUpdatePlan \/ \E e \in Copies : CallExtractCopy(e)

SpecExtract == InitExtract /\ [][NextExtract]_vars

\* ---- Agent.prepare, Agent.run_task and the orchestrator's round ----

Updated_KeepEarlier(d, other) ==
    [x \in (DOMAIN d) \cup (DOMAIN other) |-> IF x \in DOMAIN d THEN d[x] ELSE other[x]]

\* dict.update(other)
Updated(d, other) ==
    [x \in (DOMAIN d) \cup (DOMAIN other) |-> IF x \in DOMAIN other THEN other[x] ELSE d[x]]

\* context or {}
OrEmpty(ctx) == IF IsDict(ctx) THEN ctx ELSE EmptyDict

\* str.lower() of one word of a task
LowerWord(w) ==
    CASE w = "Updating" -> "updating"
      [] w = "UPDATE" -> "update"
      [] w = "Strategy" -> "strategy"
      [] OTHER -> w

Lower(t) == [j \in 1..Len(t) |-> LowerWord(t[j])]

\* phrase in text, both taken word by word
Contains(t, phrase) ==
    \E i \in 0..(Len(t) - Len(phrase)) : SubSeq(t, i + 1, i + Len(phrase)) = phrase

IsUpdateTask_CaseSensitive(t) ==
    \/ Contains(t, <<"updating", "the", "dependency">>)
    \/ Contains(t, <<"update", "strategy">>)

\* is_update_task
IsUpdateTask(t) ==
    \/ Contains(Lower(t), <<"updating", "the", "dependency">>)
    \/ Contains(Lower(t), <<"update", "strategy">>)

\* the names given to agent1, agent2 and judge_agent
GeneralProfiles == <<"ConfigurationSpecialist", "WorkflowSpecialist", "Judge">>
UpdateProfiles == <<"APIAnalysisSpecialist", "CodeMigrationSpecialist", "UpdateJudge">>

\* mutant of FailureResult: the exception leaves run_task
FailureResult_Propagate(message) == [tag |-> "exception", message |-> PyStr(message)]

FailureResult_Success(message) == [success |-> TRUE, output |-> PyStr(message)]

\* {"success": False, "output": str(exc)}
FailureResult(message) == [success |-> FALSE, output |-> PyStr(message)]

\* the log of finished run_task calls after one that ends with res
Finished(res) ==
    Append(runs, [returned |-> "success" \in DOMAIN res,
                  success |-> "success" \in DOMAIN res /\ res.success,
                  state |-> state, prepares |-> Len(prepared)])

\* the entry of all_suggestions for one AgentResponse
SuggestionEntry(sg) ==
    [agent |-> sg.agent_name, suggestion |-> sg.suggestion,
     reasoning |-> sg.reasoning, confidence |-> sg.confidence]

\* the dict run returns after the judge's decision
RoundResult(selected, suggs) ==
    [success |-> TRUE,
     selected_suggestion |-> selected.suggestion,
     selected_agent |-> selected.agent_name,
     reasoning |-> selected.reasoning,
     all_suggestions |-> [j \in 1..Len(suggs) |-> SuggestionEntry(suggs[j])]]

\* what a completion call does: it returns a response or raises with a message
Completed(v) == [raised |-> FALSE, v |-> v, message |-> ""]
CompletionRaised(message) == [raised |-> TRUE, v |-> None, message |-> message]

Tasks ==
    { <<"add", "requests">>,
      <<"Updating", "the", "dependency", "requests">>,
      <<"plan", "updating", "the", "dependency">>,
      <<"an", "UPDATE", "Strategy">>,
      <<"updating", "dependency">>,
      <<"update", "the", "strategy">> }

Contexts ==
    { None, EmptyDict,
      [x \in {"a"} |-> PyNum("1")],
      [x \in {"a", "b"} |-> PyNum("2")] }

GeneratorCompletions ==
    { Completed(PyText(ObjectText(<< <<"suggestion", StrTok("do this")>>,
                                     <<"confidence", NumTok("0.9")>> >>))),
      Completed(PyText(<<Word("garbage")>>)),
      Completed(PyText(<<NumTok("42")>>)),
      CompletionRaised("rate limit"),
      CompletionRaised("timeout") }

JudgeCompletions ==
    { Completed(PyText(ObjectText(<< <<"selected_agent", StrTok("CodeMigrationSpecialist")>>,
                                     <<"reasoning", StrTok("because")>> >>))),
      Completed(PyText(ObjectText(<< <<"selected_agent", StrTok("WorkflowSpecialist")>> >>))),
      Completed(PyText(<<Word("garbage")>>)),
      Completed(PyText(<<NumTok("42")>>)),
      CompletionRaised("rate limit") }

\* Agent.prepare(context)
Prepare(ctx) ==
    /\ entry = "agent"
    /\ pc \in {"idle", "returned"}
    /\ Len(prepared) < MaxPrepares
    /\ state' = Updated(state, OrEmpty(ctx))
    /\ prepared' = Append(prepared, ctx)
    /\ UNCHANGED <<entry, pc, use_multi_agent, llm, task, context, profiles, calls,
                   task_result, runs, batchVars, parseVars, extractVars, taskVars>>

\* Agent.run_task(task_description) with the orchestrator: up to the first
\* completion call of MultiAgentOrchestrator.run(task, context=self.state)
RunTask(t) ==
    /\ entry = "agent"
    /\ pc \in {"idle", "returned"}
    /\ use_multi_agent
    /\ Len(runs) < MaxRuns
    /\ task' = t
    /\ context' = OrEmpty(state)
    /\ profiles' = IF IsUpdateTask(t) THEN UpdateProfiles ELSE GeneralProfiles
    /\ calls' = <<>>
    /\ suggestions' = <<>>
    /\ task_result' = None
    /\ pc' = "agent1"
    /\ UNCHANGED <<entry, state, prepared, use_multi_agent, llm, runs, result, parsed,
                   batchVars, extractVars, taskVars>>

\* Agent.run_task(task_description) without the orchestrator
RunTaskSingle(t) ==
    /\ entry = "agent"
    /\ pc \in {"idle", "returned"}
    /\ ~use_multi_agent
    /\ Len(runs) < MaxRuns
    /\ task' = t
    /\ context' = EmptyDict
    /\ profiles' = <<>>
    /\ suggestions' = <<>>
    /\ IF llm = "client"
       THEN \E o \in {Completed(PyText(<<Word("garbage")>>)), CompletionRaised("rate limit")} :
               /\ calls' = <<[profile |-> "llm", raised |-> o.raised, message |-> o.message]>>
               /\ task_result' = IF o.raised THEN FailureResult(o.message)
                                 ELSE [success |-> TRUE, output |-> o.v]
       ELSE /\ calls' = <<>>
            /\ task_result' = [success |-> TRUE, output |-> PyStr("(simulated)")]
    /\ runs' = Finished(task_result')
    /\ pc' = "returned"
    /\ UNCHANGED <<entry, state, prepared, use_multi_agent, llm, result, parsed,
                   batchVars, extractVars, taskVars>>

GetAgentResponse_Swallow(i) ==
    /\ entry = "agent"
    /\ pc = (IF i = 1 THEN "agent1" ELSE "agent2")
    /\ \E o \in GeneratorCompletions :
          LET r == ParseAgentResponse(PyStr(profiles[i]), o.v)
          IN /\ calls' = Append(calls, [profile |-> profiles[i], raised |-> o.raised,
                                       message |-> o.message])
             /\ IF ~o.raised /\ r.exc # "none"
                THEN /\ task_result' = FailureResult(r.exc)
                     /\ runs' = Finished(task_result')
                     /\ pc' = "returned"
                     /\ UNCHANGED suggestions
                ELSE /\ suggestions' = Append(suggestions,
                            IF o.raised
                            THEN AgentResponse(PyStr(profiles[i]), PyStr(o.message),
                                               PyStr(""), PyNum("0.0"))
                            ELSE r.val)
                     /\ pc' = (IF i = 1 THEN "agent2" ELSE "judge")
                     /\ UNCHANGED <<task_result, runs>>
    /\ UNCHANGED <<entry, state, prepared, use_multi_agent, llm, task, context, profiles,
                   result, parsed, batchVars, extractVars, taskVars>>

\* _get_agent_response(agent, task, context) for agent1 (i = 1) and agent2 (i = 2);
\* agent.run is the completion call, agent.config.name the name the agent was
\* created under; an exception ends run and is caught in run_task
GetAgentResponse(i) ==
    /\ entry = "agent"
    /\ pc = (IF i = 1 THEN "agent1" ELSE "agent2")
    /\ \E o \in GeneratorCompletions :
          LET r == ParseAgentResponse(PyStr(profiles[i]), o.v)
          IN /\ calls' = Append(calls, [profile |-> profiles[i], raised |-> o.raised,
                                       message |-> o.message])
             /\ IF o.raised
                THEN /\ task_result' = FailureResult(o.message)
                     /\ runs' = Finished(task_result')
                     /\ pc' = "returned"
                     /\ UNCHANGED suggestions
                ELSE IF r.exc # "none"
                THEN /\ task_result' = FailureResult(r.exc)
                     /\ runs' = Finished(task_result')
                     /\ pc' = "returned"
                     /\ UNCHANGED suggestions
                ELSE /\ suggestions' = Append(suggestions, r.val)
                     /\ pc' = (IF i = 1 THEN "agent2" ELSE "judge")
                     /\ UNCHANGED <<task_result, runs>>
    /\ UNCHANGED <<entry, state, prepared, use_multi_agent, llm, task, context, profiles,
                   result, parsed, batchVars, extractVars, taskVars>>

\* _judge_suggestions(judge_agent, task, suggestions, context) and the return of run
JudgeSuggestions ==
    /\ entry = "agent"
    /\ pc = "judge"
    /\ \E o \in JudgeCompletions :
          LET decision == ParseJudgeDecision(o.v, suggestions)
          IN /\ calls' = Append(calls, [profile |-> profiles[3], raised |-> o.raised,
                                       message |-> o.message])
             /\ task_result' = IF o.raised THEN FailureResult(o.message)
                               ELSE IF decision.exc # "none" THEN FailureResult(decision.exc)
                               ELSE RoundResult(decision.val, suggestions)
    /\ runs' = Finished(task_result')
    /\ pc' = "returned"
    /\ UNCHANGED <<entry, state, prepared, use_multi_agent, llm, task, context, profiles,
                   suggestions, result, parsed, batchVars, extractVars, taskVars>>

\* Agent(use_multi_agent=..., llm_client=...)
InitAgent ==
    /\ entry = "agent"
    /\ pc = "idle"
    /\ state = EmptyDict
    /\ prepared = <<>>
    /\ use_multi_agent \in BOOLEAN
    /\ llm \in {"none", "client"}
    /\ task = <<>>
    /\ context = EmptyDict
    /\ profiles = <<>>
    /\ calls = <<>>
    /\ task_result = None
    /\ runs = <<>>
    /\ IdleBatch
    /\ IdleParse
    /\ IdleExtract
    /\ IdleTask

NextAgent ==
    \/ \E ctx \in Contexts : Prepare(ctx)
    \/ \E t \in Tasks : RunTask(t)
    \/ \E t \in Tasks : RunTaskSingle(t)
    \/ \E i \in {1, 2} : GetAgentResponse(i)
    \/ JudgeSuggestions

SpecAgent == InitAgent /\ [][NextAgent]_vars

\* ---- _build_bulk_update_task ----

\* u.get(key) written into the text: the value, or None
GetOrNone(u, key) == IF key \in DOMAIN u THEN u[key] ELSE "None"

\* [u for u in all_updates if u.get("package") != package]
RECURSIVE OtherUpdates(_, _)
OtherUpdates(all_updates, package) ==
    IF all_updates = <<>> THEN <<>>
    ELSE IF "package" \in DOMAIN Head(all_updates) /\ Head(all_updates).package = package
         THEN OtherUpdates(Tail(all_updates), package)
         ELSE <<Head(all_updates)>> \o OtherUpdates(Tail(all_updates), package)

\* the note on the other packages: "" (no note), or the packages named and
\* the number given in "and N more" (0: no such suffix)
OtherUpdatesStr(other_updates) ==
    IF other_updates = <<>> THEN [note |-> FALSE, named |-> <<>>, more |-> 0]
    ELSE LET shown == SubSeq(other_updates, 1,
                             IF Len(other_updates) > NamedOthers THEN NamedOthers
                             ELSE Len(other_updates))
         IN [note |-> TRUE,
             named |-> [j \in 1..Len(shown) |->
                           <<GetOrNone(shown[j], "package"), GetOrNone(shown[j], "old_version"),
                             GetOrNone(shown[j], "new_version")>>],
             more |-> IF Len(other_updates) > NamedOthers
                      THEN Len(other_updates) - NamedOthers ELSE 0]

\* _build_bulk_update_task(current_update, all_updates): the parts of the text
\* that depend on the arguments
BuildBulkUpdateTask(current_update, all_updates) ==
    LET package == Get(current_update, "package", "unknown")
    IN [package |-> package,
        old_version |-> Get(current_update, "old_version", "unknown"),
        new_version |-> Get(current_update, "new_version", "unknown"),
        other_updates_str |-> OtherUpdatesStr(OtherUpdates(all_updates, package))]

CallBuildBulkUpdateTask ==
    /\ entry = "task"
    /\ pc = "idle"
    /\ bulk_task' = BuildBulkUpdateTask(task_updates[task_current], task_updates)
    /\ pc' = "built"
    /\ UNCHANGED <<entry, task_updates, task_current, batchVars, parseVars, extractVars,
                   agentVars>>

PackageNames == <<"a", "b", "c", "d", "e", "f", "g", "h", "i">>

ItemOf(p) == [package |-> p, old_version |-> "1.0", new_version |-> "2.0"]

\* an item that has no package
NamelessItem == [old_version |-> "1.0", new_version |-> "2.0"]

\* batches of distinct packages, and such batches with one item replaced by
\* an item without package or by a second item for package a
TaskBatches ==
    LET base(n) == [j \in 1..n |-> ItemOf(PackageNames[j])]
    IN {base(n) : n \in 1..MaxBatch}
         \cup {[base(n) EXCEPT ![j] = v] :
                  n \in 1..MaxBatch, j \in 1..MaxBatch, v \in {NamelessItem, ItemOf("a")}}

InitTask ==
    /\ entry = "task"
    /\ pc = "idle"
    /\ task_updates \in TaskBatches
    /\ task_current \in 1..Len(task_updates)
    /\ bulk_task = None
    /\ IdleBatch
    /\ IdleParse
    /\ IdleExtract
    /\ IdleAgent

NextTask == CallBuildBulkUpdateTask

SpecTask == InitTask /\ [][NextTask]_vars

----------------------------------------------------------------------------
(* Claims about run_bulk_update_analysis (specification Spec) *)

\* the plan the round of finished item i handed over (None when it failed)
PlanOf(i) ==
    IF rounds[i].outcome.kind = "ok" THEN rounds[i].outcome.plan ELSE None

\* the round of finished item i raised or returned success = False
RoundFailed(i) == rounds[i].outcome.kind # "ok"

\* the plan of finished item i holds a code_changes entry that is no dict
PlanMalformed(i) ==
    /\ Truthy(PlanOf(i))
    /\ \E c \in Range(Get(PlanOf(i), "code_changes", <<>>)) : ~IsDict(c)

\* the packages of the first n items that failed, in input order
RECURSIVE FailedUpTo(_)
FailedUpTo(n) ==
    IF n = 0 THEN <<>>
    ELSE IF RoundFailed(n) \/ PlanMalformed(n)
         THEN Append(FailedUpTo(n - 1), updates[n].package)
         ELSE FailedUpTo(n - 1)

RECURSIVE SumOver(_, _)
SumOver(field, n) == IF n = 0 THEN 0 ELSE rounds[n][field] + SumOver(field, n - 1)

\* C1 (as claimed): every finished item either contributed entries to
\* breaking_changes/code_changes or was appended to failed_packages, never
\* both and never neither.
C1_ExactlyOne ==
    \A i \in 1..Len(rounds) :
        (rounds[i].bc + rounds[i].cc > 0) # rounds[i].failed

\* C1 (amended): every finished item ends in exactly one of two outcomes.
\* (a) Its round succeeded and its plan was aggregated without error: every
\* entry of the plan (none when the plan is absent or empty) was appended and
\* the package is not in failed_packages.  (b) Its round failed or raised, or
\* aggregating its plan raised: the package was appended to failed_packages
\* exactly once, and a failed round contributed nothing.
C1_Amended ==
    /\ \A i \in 1..Len(rounds) :
          /\ rounds[i].failed <=> (RoundFailed(i) \/ PlanMalformed(i))
          /\ ~rounds[i].failed =>
                /\ rounds[i].bc = Len(Get(PlanOf(i), "breaking_changes", <<>>))
                /\ rounds[i].cc = Len(Get(PlanOf(i), "code_changes", <<>>))
          /\ RoundFailed(i) => rounds[i].bc + rounds[i].cc = 0
    /\ failed_packages = FailedUpTo(Len(rounds))
    /\ Len(all_breaking_changes) = SumOver("bc", Len(rounds))
    /\ Len(all_code_changes) = SumOver("cc", Len(rounds))

\* C1 witness: the batch is over; one item succeeded with an empty plan and
\* one contributed a breaking change before its aggregation raised.
C1_Witness ==
    /\ pc = "returned" /\ Len(rounds) = 2
    /\ ~rounds[1].failed /\ rounds[1].bc + rounds[1].cc = 0
    /\ rounds[2].failed /\ rounds[2].bc > 0

\* C2 (as claimed): run_bulk_update_analysis never raises.
C2_NeverRaises == entry = "batch" => pc # "raised"

\* C3: when the round of an item raises or returns success = False, the
\* package is appended to failed_packages and the aggregated lists are left as
\* they were; the loop goes on to the end of the list; failed_packages holds
\* the failed items' packages in input order, and the report hands it over
\* together with the aggregated breaking changes.
C3_Inv ==
    /\ failed_packages = FailedUpTo(Len(rounds))
    /\ pc # "loop" => Len(rounds) = Len(updates)
    /\ pc = "returned" =>
          /\ report.failed_packages = failed_packages
          /\ report.breaking_changes = all_breaking_changes

C3_Step ==
    (idx' = idx + 1 /\ rounds'[idx'].outcome.kind # "ok") =>
        /\ all_breaking_changes' = all_breaking_changes
        /\ all_code_changes' = all_code_changes
        /\ failed_packages' = Append(failed_packages, updates[idx'].package)

C3_RoundFailure == [](C3_Inv) /\ [][C3_Step]_vars

\* C3 witness: the first round returned success = False, the second raised,
\* and the report is out.
C3_Witness ==
    /\ pc = "returned" /\ Len(rounds) = 2
    /\ rounds[1].outcome.kind = "fail" /\ rounds[2].outcome.kind = "raise"
    /\ updates[1].package # updates[2].package

\* C4: the report's packages_analyzed is the number of input items.
C4_PackagesAnalyzed ==
    (entry = "batch" /\ pc = "returned") => report.packages_analyzed = Len(updates)

\* C4 witness: a report for two items, one of which failed.
C4_Witness ==
    /\ entry = "batch" /\ pc = "returned"
    /\ Len(updates) = 2 /\ Len(failed_packages) = 1

----------------------------------------------------------------------------
(* Claims about _deduplicate_code_changes (specification SpecDedup) *)

\* the first call on its own has returned
FirstReturned == entry = "dedup" /\ pc = "returned" /\ run_no = 1

\* the (file, line_range) pair of a change, a missing field being ""
PairKey(change) == <<Get(change, "file", <<>>), Get(change, "line_range", <<>>)>>

\* a change without the field the deduplication adds
Strip(change) == [x \in (DOMAIN change) \ {"packages"} |-> change[x]]

\* the packages field as a set (unset and None: no packages)
PackagesSet(change) ==
    IF "packages" \in DOMAIN change /\ change["packages"] # None
    THEN Range(change["packages"].items)
    ELSE {}

\* C5 (as claimed): the output holds exactly one change for every
\* (file, line_range) pair of the input.
C5_OnePerKey ==
    FirstReturned =>
        \A c \in Range(all_code_changes) :
            Cardinality({j \in 1..Len(unique_changes) :
                            PairKey(unique_changes[j]) = PairKey(c)}) = 1

\* positions of the working list whose change has the key of position i
SameKey(i) ==
    {j \in 1..Len(all_code_changes) :
        DedupKey(all_code_changes[j]) = DedupKey(all_code_changes[i])}

DescLen(i) == Len(Get(all_code_changes[i], "description", <<>>))

\* C6: the survivor of a key is the change with the longest description, the
\* earliest one among those of maximal length.
C6_LongestEarliest ==
    FirstReturned =>
        \A j \in 1..Len(seen) :
            LET s == seen[j].at
            IN \A i \in SameKey(s) :
                  /\ DescLen(i) <= DescLen(s)
                  /\ DescLen(i) = DescLen(s) => s <= i

\* C6 witness: three changes at one (file, line_range) pair, the second and
\* the third of equal maximal length; the second survives.
C6_Witness ==
    /\ FirstReturned /\ Len(all_code_changes) = 3
    /\ \A i \in 1..3 : PairKey(all_code_changes[i]) = PairKey(all_code_changes[1])
    /\ DescLen(1) < DescLen(2) /\ DescLen(2) = DescLen(3)
    /\ all_code_changes[2]["package"] # all_code_changes[3]["package"]
    /\ Len(unique_changes) = 1
    /\ Strip(unique_changes[1]) = Strip(all_code_changes[2])

\* the distinct package values the input holds at the key of position i
PackagesAt(i) ==
    {all_code_changes[j]["package"] :
        j \in {j \in SameKey(i) : "package" \in DOMAIN all_code_changes[j]}}

\* C7 (as claimed): the survivor's packages is the list of all distinct
\* packages seen at its key, without duplicates, when there are two or more,
\* and is unset (or None) when there is only one.
C7_PackagesExact ==
    FirstReturned =>
        \A j \in 1..Len(seen) :
            LET c == all_code_changes[seen[j].at]
                P == PackagesAt(seen[j].at)
            IN IF Cardinality(P) >= 2
               THEN /\ "packages" \in DOMAIN c
                    /\ c["packages"] # None
                    /\ Range(c["packages"].items) = P
                    /\ Len(c["packages"].items) = Cardinality(P)
               ELSE "packages" \notin DOMAIN c \/ c["packages"] = None

\* C8: a second deduplication, of the same working list or of the list the
\* first one returned, returns the same changes in the same order with the
\* same packages sets, and does not raise.
C8_Idempotent ==
    (entry = "dedup" /\ run_no = 2) =>
        /\ pc # "raised"
        /\ pc = "returned" =>
              /\ Len(unique_changes) = Len(first_result)
              /\ \A j \in 1..Len(unique_changes) :
                    /\ Strip(unique_changes[j]) = Strip(first_result[j])
                    /\ PackagesSet(unique_changes[j]) = PackagesSet(first_result[j])

\* C8 witness: the second run is over; the first one had merged two keys'
\* duplicates, so its result is shorter than the working list and holds two
\* changes, one of them with a packages list.
C8_Witness ==
    /\ entry = "dedup" /\ run_no = 2 /\ pc = "returned"
    /\ Len(first_result) = 2
    /\ \E j \in 1..2 : Cardinality(PackagesSet(first_result[j])) = 2

----------------------------------------------------------------------------
(* Claims about the response parsers (specification SpecParse) *)

SuggestionNames == {suggestions[j].agent_name : j \in 1..Len(suggestions)}

\* the judge's selected_agent, when the response gives one
SelectedAgent ==
    IF IsText(result)
    THEN IF JsonLoads(result.toks).ok /\ IsDict(JsonLoads(result.toks).v)
         THEN Get(JsonLoads(result.toks).v, "selected_agent", None)
         ELSE None
    ELSE IF IsDict(result) THEN Get(result, "selected_agent", None)
    ELSE None

\* C9 (as claimed): _parse_judge_decision returns, for every response and
\* every non-empty suggestion list, the judge's selected_agent when that is
\* the name of a suggestion, and the first suggestion's name otherwise.
C9_AgentNameKnown ==
    (entry = "parse" /\ pc = "judge_decision") =>
        /\ parsed.exc = "none"
        /\ parsed.val.agent_name \in SuggestionNames
        /\ parsed.val.agent_name =
              IF SelectedAgent \in SuggestionNames THEN SelectedAgent
              ELSE suggestions[1].agent_name

\* C10 (as claimed): _parse_agent_response returns a populated AgentResponse
\* for every text and never raises.
C10_NeverRaises ==
    (entry = "parse" /\ pc = "agent_response" /\ IsText(result)) =>
        /\ parsed.exc = "none"
        /\ DOMAIN parsed.val = {"agent_name", "suggestion", "reasoning", "confidence"}

\* the structured form of the response: the dict itself, or the dict its text
\* decodes to; None when there is none
Structured ==
    IF IsText(result)
    THEN IF JsonLoads(result.toks).ok /\ IsDict(JsonLoads(result.toks).v)
         THEN JsonLoads(result.toks).v
         ELSE None
    ELSE IF IsDict(result) THEN result
    ELSE None

\* C11 (as claimed): every AgentResponse _parse_agent_response returns for a
\* text or a mapping has a confidence that is not None: the response's own
\* value when it has the field, 0.7 when a structured response has no
\* confidence field, 0.5 when the text does not decode.
C11_ConfidenceDefined ==
    (entry = "parse" /\ pc = "agent_response" /\ parsed.exc = "none"
        /\ (IsText(result) \/ IsDict(result))) =>
        /\ parsed.val.confidence # None
        /\ parsed.val.confidence =
              IF IsDict(Structured)
              THEN Get(Structured, "confidence", PyNum("0.7"))
              ELSE PyNum("0.5")

\* the judge's text has no selected_agent field: it does not decode, or it
\* decodes to an object without the field
TextWithoutSelectedAgent ==
    /\ IsText(result)
    /\ \/ ~JsonLoads(result.toks).ok
       \/ IsDict(Structured) /\ "selected_agent" \notin DOMAIN Structured

\* C12 (as claimed): for a judge text without a selected_agent field,
\* _parse_judge_decision returns the first suggestion's agent_name and
\* suggestion, with reasoning equal to the raw text.
C12_FallbackRawText ==
    (entry = "parse" /\ pc = "judge_decision" /\ TextWithoutSelectedAgent) =>
        parsed = Returned([agent_name |-> suggestions[1].agent_name,
                           suggestion |-> suggestions[1].suggestion,
                           reasoning |-> result])

\* C12 (amended): for a judge text without a selected_agent field the
\* agent_name is the first suggestion's.  When the text is not JSON, the
\* suggestion is the first suggestion's and the reasoning is the raw text.
\* When the text is a JSON object, the suggestion is the object's suggestion
\* field (the first suggestion's text when it has none) and the reasoning is
\* the object's reasoning field ("" when it has none).
C12_Amended ==
    (entry = "parse" /\ pc = "judge_decision" /\ TextWithoutSelectedAgent) =>
        /\ parsed.exc = "none"
        /\ parsed.val.agent_name = suggestions[1].agent_name
        /\ IF IsDict(Structured)
           THEN /\ parsed.val.suggestion =
                      Get(Structured, "suggestion", suggestions[1].suggestion)
                /\ parsed.val.reasoning = Get(Structured, "reasoning", PyStr(""))
           ELSE /\ parsed.val.suggestion = suggestions[1].suggestion
                /\ parsed.val.reasoning = result

\* C12 witness: the judge answered a JSON object that has a reasoning field
\* and no selected_agent, and there are two suggestions.
C12_Witness ==
    /\ entry = "parse" /\ pc = "judge_decision" /\ TextWithoutSelectedAgent
    /\ IsDict(Structured) /\ "reasoning" \in DOMAIN Structured
    /\ Len(suggestions) = 2
    /\ parsed.exc = "none" /\ parsed.val.reasoning = PyStr("because")

\* ---- the extractor ----

ExtractedText == entry = "extract" /\ pc = "extracted" /\ IsText(extract_arg)

HasLabel == Label \in Range(extract_arg.toks)

AfterLabel == Slice(extract_arg.toks, Find(extract_arg.toks, Label) + 1, Len(extract_arg.toks))

\* the JSON object that starts right behind the first label, when there is one
BlockBehindLabel == ParseValue(AfterLabel, 1)

\* C14: for a well-formed block behind the label, the extractor returns the
\* parsed object of that block, whatever stands before the label and after
\* the closing brace of the block.
C14_BlockParsed ==
    (ExtractedText /\ HasLabel /\ BlockBehindLabel.ok /\ IsDict(BlockBehindLabel.v)) =>
        extracted = Returned(BlockBehindLabel.v)

\* C15: for a text that contains the label, when what follows the label has
\* no opening brace, no closing brace, or the text from the first opening to
\* the last closing brace is not valid JSON, the extractor returns None; it
\* never raises.
C15_MalformedAbsent ==
    /\ ExtractedText => extracted.exc = "none"
    /\ (/\ ExtractedText
        /\ HasLabel
        /\ \/ Find(AfterLabel, Punct("{")) = -1
           \/ RFind(AfterLabel, Punct("}")) = -1
           \/ ~JsonLoads(Slice(AfterLabel, Find(AfterLabel, Punct("{")),
                               RFind(AfterLabel, Punct("}")) + 1)).ok)
          => extracted = Returned(None)

\* ---- the round ----

InRound == entry = "agent" /\ use_multi_agent /\ pc \in {"agent1", "agent2", "judge", "returned"}

RoundReturned == entry = "agent" /\ use_multi_agent /\ pc = "returned"

TaskHasTrigger ==
    \/ Contains(Lower(task), <<"updating", "the", "dependency">>)
    \/ Contains(Lower(task), <<"update", "strategy">>)

CallProfiles == [j \in 1..Len(calls) |-> calls[j].profile]

\* C16: a round uses the update profiles exactly when the lower-cased task
\* contains "updating the dependency" or "update strategy", and the general
\* profiles otherwise, whatever the context and the earlier calls were.
C16_Dispatch ==
    InRound =>
        /\ profiles = (IF TaskHasTrigger THEN UpdateProfiles ELSE GeneralProfiles)
        /\ \A j \in 1..Len(calls) : calls[j].profile = profiles[j]

\* an upper-case task with the trigger, after an earlier context, reaches the judge
C16_Witness ==
    /\ InRound
    /\ pc = "judge"
    /\ task[1] = "Updating"
    /\ state # EmptyDict
    /\ profiles = UpdateProfiles
    /\ CallProfiles = <<"APIAnalysisSpecialist", "CodeMigrationSpecialist">>

\* C17: when a completion call of a generator or of the judge raises, run_task
\* returns success False with the exception's message as output and nothing
\* else, even when an earlier generator call had succeeded.
C17_CompletionFailure ==
    (RoundReturned /\ calls # <<>> /\ calls[Len(calls)].raised) =>
        task_result = [success |-> FALSE, output |-> PyStr(calls[Len(calls)].message)]

\* the second generator's completion raises after the first suggestion exists
C17_Witness ==
    /\ RoundReturned
    /\ Len(calls) = 2
    /\ ~calls[1].raised
    /\ calls[2].raised
    /\ Len(suggestions) = 1
    /\ DOMAIN task_result = {"success", "output"}
    /\ task_result.success = FALSE
    /\ task_result.output = PyStr("timeout")

\* C18: in a round in which no completion call raises, the two generators
\* are called once each in profile order, then the judge once, and the
\* result's all_suggestions has one entry per generator profile in that
\* order, next to one decision.
C18_RoundShape ==
    (RoundReturned /\ \A j \in 1..Len(calls) : ~calls[j].raised) =>
        /\ CallProfiles = profiles
        /\ Len(suggestions) = 2
        /\ DOMAIN task_result = {"success", "selected_suggestion", "selected_agent",
                                 "reasoning", "all_suggestions"}
        /\ Len(task_result.all_suggestions) = 2
        /\ \A j \in 1..2 : task_result.all_suggestions[j].agent = PyStr(profiles[j])

\* ---- Agent.prepare ----

\* the contexts merged from left to right; None adds nothing
RECURSIVE MergeAll(_)
MergeAll(ctxs) ==
    IF ctxs = <<>> THEN EmptyDict
    ELSE LET before == MergeAll(SubSeq(ctxs, 1, Len(ctxs) - 1))
             last == ctxs[Len(ctxs)]
         IN IF last = None THEN before
            ELSE [x \in (DOMAIN before) \cup (DOMAIN last) |->
                     IF x \in DOMAIN last THEN last[x] ELSE before[x]]

\* C20: Agent.state is the left-to-right merge of the contexts passed to
\* prepare (prepare(None) changes nothing), and a multi-agent round is handed
\* the state accumulated when it starts.
C20_StateIsMerge ==
    entry = "agent" =>
        /\ state = MergeAll(prepared)
        /\ (use_multi_agent /\ pc \in {"agent1", "agent2", "judge"}) => context = state

\* a later context overrides key a and keeps key b of the earlier one
C20_Witness ==
    /\ entry = "agent"
    /\ use_multi_agent
    /\ pc = "agent1"
    /\ prepared = <<[x \in {"a", "b"} |-> PyNum("2")], [x \in {"a"} |-> PyNum("1")]>>
    /\ state = [x \in {"a", "b"} |-> IF x = "a" THEN PyNum("1") ELSE PyNum("2")]
    /\ context = state

\* ---- the aggregation of the plans ----

\* finished item i's round succeeded and a plan was extracted
HasPlan(i) == rounds[i].outcome.kind = "ok" /\ Truthy(rounds[i].outcome.plan)

PlanList(i, field) == Get(rounds[i].outcome.plan, field, <<>>)

\* the breaking changes of the plans of the first n items, tagged, item by item
RECURSIVE ExpectedBreaking(_)
ExpectedBreaking(n) ==
    IF n = 0 THEN <<>>
    ELSE ExpectedBreaking(n - 1) \o
         (IF HasPlan(n)
          THEN [j \in 1..Len(PlanList(n, "breaking_changes")) |->
                   [package |-> updates[n].package,
                    old_version |-> updates[n].old_version,
                    new_version |-> updates[n].new_version,
                    change |-> PlanList(n, "breaking_changes")[j]]]
          ELSE <<>>)

RECURSIVE BreakingCount(_)
BreakingCount(n) ==
    IF n = 0 THEN 0
    ELSE BreakingCount(n - 1)
           + (IF HasPlan(n) THEN Len(PlanList(n, "breaking_changes")) ELSE 0)

\* entry c of item n's plan with its package set
Tagged(c, n) == [x \in (DOMAIN c) \cup {"package"} |-> IF x = "package" THEN updates[n].package ELSE c[x]]

\* every code change of the plans of the first n items, tagged
RECURSIVE ExpectedCodeAll(_)
ExpectedCodeAll(n) ==
    IF n = 0 THEN <<>>
    ELSE ExpectedCodeAll(n - 1) \o
         (IF HasPlan(n)
          THEN [j \in 1..Len(PlanList(n, "code_changes")) |-> Tagged(PlanList(n, "code_changes")[j], n)]
          ELSE <<>>)

\* the code changes of a plan that stand before its first entry that is no mapping
RECURSIVE MappingsInFront(_)
MappingsInFront(ccs) ==
    IF ccs = <<>> THEN <<>>
    ELSE IF "tag" \in DOMAIN Head(ccs) THEN <<>>
    ELSE <<Head(ccs)>> \o MappingsInFront(Tail(ccs))

RECURSIVE ExpectedCodeMappings(_)
ExpectedCodeMappings(n) ==
    IF n = 0 THEN <<>>
    ELSE ExpectedCodeMappings(n - 1) \o
         (IF HasPlan(n)
          THEN [j \in 1..Len(MappingsInFront(PlanList(n, "code_changes"))) |->
                   Tagged(PlanList(n, "code_changes")[j], n)]
          ELSE <<>>)

\* the working list without the packages field the deduplication writes into it
WorkingList == [j \in 1..Len(all_code_changes) |-> Strip(all_code_changes[j])]

BreakingAggregated ==
    /\ all_breaking_changes = ExpectedBreaking(Len(rounds))
    /\ Len(all_breaking_changes) = BreakingCount(Len(rounds))

SpanAfterLabel ==
    Slice(AfterLabel, Find(AfterLabel, Punct("{")), RFind(AfterLabel, Punct("}")) + 1)

\* C21: when the label is present, what the extractor parses is the span from
\* the first opening to the last closing brace of the whole text behind the
\* first label, a second label and the text behind it included.
C21_WholeSubstring ==
    (ExtractedText /\ HasLabel) =>
        extracted =
            IF Find(AfterLabel, Punct("{")) = -1 \/ RFind(AfterLabel, Punct("}")) = -1
            THEN Returned(None)
            ELSE IF JsonLoads(SpanAfterLabel).ok THEN Returned(JsonLoads(SpanAfterLabel).v)
            ELSE Returned(None)

\* ---- the copies of the extractor ----

\* C22: every copy of the extractor returns, on a text written with its own
\* label, what the orchestrator's extractor returns on the same text written
\* with UPDATE_PLAN:, so the copies differ in the label only.
C22_CopiesAgree ==
    (entry = "extract" /\ pc = "copied" /\ IsText(extract_arg)) =>
        extracted = ExtractUpdatePlan(extract_arg)

\* ---- _parse_agent_response on a mapping ----

ParsedMapping == entry = "parse" /\ pc = "agent_response" /\ IsDict(result)

\* C23 (as claimed): for a mapping, a missing suggestion gives "", a missing
\* reasoning gives "" and a missing confidence gives 0.7.
C23_MappingDefaults ==
    ParsedMapping =>
        /\ parsed.exc = "none"
        /\ parsed.val.suggestion = (IF "suggestion" \in DOMAIN result THEN result["suggestion"] ELSE PyStr(""))
        /\ parsed.val.reasoning = (IF "reasoning" \in DOMAIN result THEN result["reasoning"] ELSE PyStr(""))
        /\ parsed.val.confidence = (IF "confidence" \in DOMAIN result THEN result["confidence"] ELSE PyNum("0.7"))

\* C23 (amended): for a mapping, a missing suggestion gives the text of the
\* whole mapping, a missing reasoning gives "" and a missing confidence 0.7.
C23_Amended ==
    ParsedMapping =>
        /\ parsed.exc = "none"
        /\ parsed.val.suggestion = (IF "suggestion" \in DOMAIN result THEN result["suggestion"] ELSE PyRepr(result))
        /\ parsed.val.reasoning = (IF "reasoning" \in DOMAIN result THEN result["reasoning"] ELSE PyStr(""))
        /\ parsed.val.confidence = (IF "confidence" \in DOMAIN result THEN result["confidence"] ELSE PyNum("0.7"))

\* a mapping that has a reasoning only
C23_Witness ==
    /\ ParsedMapping
    /\ DOMAIN result = {"reasoning"}
    /\ parsed.val.suggestion = PyRepr(result)
    /\ parsed.val.confidence = PyNum("0.7")

\* ---- a round stops at the first completion call that raises ----

\* C24: once a completion call of a round has raised no further completion
\* call of that round is made, and the exception leaves the round as it is:
\* the round is over and its caller holds the exception's message.
C24_FailFast ==
    InRound =>
        /\ \A j \in 1..(Len(calls) - 1) : ~calls[j].raised
        /\ (calls # <<>> /\ calls[Len(calls)].raised) =>
               /\ pc = "returned"
               /\ Len(suggestions) = Len(calls) - 1
               /\ task_result.output = PyStr(calls[Len(calls)].message)

\* the first generator's completion raised: one call, no suggestion
C24_Witness ==
    /\ RoundReturned
    /\ Len(calls) = 1
    /\ calls[1].raised
    /\ suggestions = <<>>
    /\ task_result.output = PyStr("timeout")

\* ---- the task built for one item of a batch ----

\* the package of an item of the batch, when it has one
HasPackage(j) == "package" \in DOMAIN task_updates[j]

\* is item j another item than the current one: another position and not the
\* same package
IsOther(j) ==
    /\ j # task_current
    /\ ~(HasPackage(j) /\ HasPackage(task_current)
           /\ task_updates[j].package = task_updates[task_current].package)

OtherCount == Cardinality({j \in 1..Len(task_updates) : IsOther(j)})

\* C25: the task names the current item and at most 5 of the other items;
\* when there are more than 5 others the remainder is given as the count
\* (number of others - 5); when there is no other item the task has no note
\* on other packages.
C25_OthersCapped ==
    (entry = "task" /\ pc = "built") =>
        /\ HasPackage(task_current) => bulk_task.package = task_updates[task_current].package
        /\ Len(bulk_task.other_updates_str.named) <= 5
        /\ Len(bulk_task.other_updates_str.named) = (IF OtherCount > 5 THEN 5 ELSE OtherCount)
        /\ bulk_task.other_updates_str.more = (IF OtherCount > 5 THEN OtherCount - 5 ELSE 0)
        /\ OtherCount = 0 => ~bulk_task.other_updates_str.note

\* ---- cancelling a batch ----

\* C26: when the host cancels a batch after some items are done, the round
\* in flight is given up and what the finished items contributed is handed
\* over in a partial report.
C26_PartialReport ==
    (entry = "batch" /\ pc = "cancelled" /\ Len(rounds) > 0) =>
        /\ DOMAIN report = {"success", "breaking_changes", "code_changes",
                            "packages_analyzed", "failed_packages"}
        /\ report.breaking_changes = all_breaking_changes
        /\ report.failed_packages = failed_packages

\* ---- the context of an item's round ----

C29_Inv ==
    entry = "batch" =>
        \A i \in 1..Len(rounds) :
            /\ DOMAIN rounds[i].context
                 = (DOMAIN batch_context) \cup {"current_package", "current_update"}
            /\ rounds[i].context["current_package"] = updates[i].package
            /\ rounds[i].context["current_update"] = updates[i]
            /\ \A x \in (DOMAIN batch_context) \ {"current_package", "current_update"} :
                   rounds[i].context[x] = batch_context[x]

C29_Step == batch_context' = batch_context /\ updates' = updates

\* C29: the batch leaves the caller's context and the list of items as they
\* are; the round of an item gets a context of its own, made of the caller's
\* entries and the item's current_package and current_update, in which
\* nothing of another item shows.
C29_FreshContext == [](C29_Inv) /\ [][C29_Step]_vars

\* two items for different packages, the caller's context already holding a
\* current_package
C29_Witness ==
    /\ entry = "batch" /\ pc = "returned"
    /\ Len(rounds) = 2
    /\ "current_package" \in DOMAIN batch_context
    /\ rounds[1].context["current_package"] = "a"
    /\ rounds[2].context["current_package"] = "b"
    /\ rounds[2].context["project"] = "demo"

\* ---- the key and the order of the deduplication ----

\* C27: changes whose (file, line_range) pairs differ are never merged: only
\* changes equal in both components share a key, and each pair of the
\* working list is still there in the output.
C27_PairsKeptApart ==
    FirstReturned =>
        /\ \A c1 \in Range(all_code_changes) : \A c2 \in Range(all_code_changes) :
               DedupKey(c1) = DedupKey(c2) => PairKey(c1) = PairKey(c2)
        /\ {PairKey(c) : c \in Range(all_code_changes)}
             = {PairKey(u) : u \in Range(unique_changes)}

\* the first place of the working list that has the key of change u
FirstPlace(u) ==
    CHOOSE i \in 1..Len(all_code_changes) :
        /\ DedupKey(all_code_changes[i]) = DedupKey(u)
        /\ \A j \in 1..(i - 1) : DedupKey(all_code_changes[j]) # DedupKey(u)

\* C28: the output lists the survivors in the order in which their keys first
\* occur in the working list, also when a later, longer change has replaced
\* the first one of its key.
C28_FirstOccurrenceOrder ==
    FirstReturned =>
        /\ Len(unique_changes) = Cardinality({DedupKey(c) : c \in Range(all_code_changes)})
        /\ \A a \in 1..Len(unique_changes) : \A b \in 1..Len(unique_changes) :
               a < b => FirstPlace(unique_changes[a]) < FirstPlace(unique_changes[b])

\* the third change replaces the first one, a change of another key between them
C28_Witness ==
    /\ FirstReturned
    /\ Len(all_code_changes) = 3
    /\ DedupKey(all_code_changes[1]) = DedupKey(all_code_changes[3])
    /\ DedupKey(all_code_changes[1]) # DedupKey(all_code_changes[2])
    /\ DescLen(3) > DescLen(1)
    /\ Len(unique_changes) = 2
    /\ Strip(unique_changes[1]) = Strip(all_code_changes[3])

\* ---- Agent.run_task ----

\* true of a finished run_task: it returned a result with a success flag
RunTaskReturned ==
    /\ "success" \in DOMAIN task_result
    /\ task_result.success \in BOOLEAN

\* C30 in every state: a finished run_task has returned a result, no
\* exception, and two finished run_tasks with no prepare between them saw the
\* same Agent.state.
C30_Inv ==
    entry = "agent" =>
        /\ pc = "returned" => RunTaskReturned
        /\ \A j \in 1..Len(runs) : runs[j].returned
        /\ \A i \in 1..Len(runs) : \A j \in 1..Len(runs) :
               runs[i].prepares = runs[j].prepares => runs[i].state = runs[j].state

\* C30 in every step: only a prepare, which is the one step that extends
\* prepared, changes Agent.state.
C30_Step == (entry = "agent" /\ prepared' = prepared) => state' = state

\* C30: run_task never changes Agent.state and never raises an Exception to
\* its caller, with and without the orchestrator, whether the completion call
\* succeeds or raises; after a failed task the next run_task runs with the
\* same state.
C30_RunTaskFrame == [](C30_Inv) /\ [][C30_Step]_vars

\* a failed run_task, then one that succeeds, both under the same prepared state
C30_Witness ==
    /\ entry = "agent"
    /\ pc = "returned"
    /\ Len(runs) = 2
    /\ ~runs[1].success
    /\ runs[2].success
    /\ state # EmptyDict
    /\ runs[1].state = state
    /\ runs[2].state = state

====
